---- MODULE Spec2Model ----
(***************************************************************************)
(* winsafe COM layer: the reference-counted IUnknown handle                *)
(* (src/src/com/iunknown.rs) and the derived ITaskbarList / ITaskbarList2  *)
(* handles (src/src/com/shell/itaskbarlist.rs, itaskbarlist2.rs).          *)
(*                                                                         *)
(* A handle stores a pointer to a foreign COM object; the object keeps a   *)
(* reference count that only the entries of its dispatch table change.     *)
(* Every action is one call of a method of the wrapper, together with the  *)
(* foreign calls it makes.  A call through a null or dangling pointer is   *)
(* undefined behaviour: the model lets it either crash the process or      *)
(* return an arbitrary value.                                              *)
(*                                                                         *)
(* The shell item enumerator (src/src/shell/com_interfaces/                *)
(* ienumshellitems.rs) wraps a foreign enumerator with a cursor; its       *)
(* iterator calls the wrapper's Next once for every next().                *)
(*                                                                         *)
(* Two native controls of the gui layer: the Header control, whose events  *)
(* can be reached only before the windows exist (src/src/gui/              *)
(* native_controls/header.rs), and a column of a list view, which can be   *)
(* given the width its siblings leave (list_view_column.rs).  Widths are   *)
(* u32: a value is kept as two 16-bit halves so that 32-bit wraparound is  *)
(* computed exactly.  An item of a tree view keeps its user data behind a  *)
(* counted pointer stored in the item's lParam (tree_view_item.rs).        *)
(***************************************************************************)
EXTENDS Integers, Sequences, FiniteSets, TLC

\* ------------------------------------------------------------------ bounds
NumHandles == 2     \* handle values alive at the same time
MaxRef     == 2     \* cap on a foreign reference count
NumItems   == 3     \* items the foreign enumerator goes through
MaxCols    == 2     \* columns of the list view
MaxWidth   == 2     \* widest column and client area, in pixels
MaxTreeItems == 3   \* items added to tree views
MaxRcs     == 2     \* references to one item's data a caller holds at once

\* --------------------------------------------------------------- constants
NULL == "null"      \* std::ptr::null()
S_OK == 0           \* co::ERROR::S_OK
S_FALSE == 1        \* co::HRESULT::S_FALSE
W16 == 65536        \* 2^16: a u32 is two digits of this base

Objs     == {"objA"}               \* the foreign objects the factory can create
Handles  == 1..NumHandles
TreeItems == 1..MaxTreeItems      \* the HTREEITEMs the control can give out
Ptrs     == Objs \cup {NULL}
HResults == {S_OK, 1, 5}          \* status codes a foreign entry may return
Garbage  == {0, 1}                \* what a call through a bad pointer may return
Kinds    == {"IUnknown", "ITaskbarList", "ITaskbarList2"}

\* ---------------------------------------------------------- table layouts
\* #[repr(C)] structs: the fields in declaration order, a base table first.
IUnknownVtbl == <<"QueryInterface", "AddRef", "Release">>

\* Faulty variant: a derived table that puts a slot of its own before the
\* base table.
ITaskbarListVtbl_Reordered ==
    <<"hrInit">> \o IUnknownVtbl \o <<"addTab", "deleteTab", "activateTab", "setActiveAlt">>

ITaskbarListVtbl ==
    IUnknownVtbl \o <<"hrInit", "addTab", "deleteTab", "activateTab", "setActiveAlt">>

ITaskbarList2Vtbl == ITaskbarListVtbl \o <<"MarkFullscreenWindow">>

\* Offset (0-based slot) of a named field in a table.
SlotOf(tbl, name) == (CHOOSE i \in 1..Len(tbl) : tbl[i] = name) - 1

VARIABLES
    ostate,     \* per object: "none" (not created), "live", "freed"
    refCount,   \* per object: the foreign reference count
    built,      \* per object: handles constructed on it so far (2: two or more)
    hstate,     \* per handle: "free" (no such value now) or "live"
    kind,       \* per handle: its Rust type
    vtbl,       \* per handle: IUnknown.vtbl, the stored pointer
    orig,       \* per handle: the pointer it was constructed from
    owned,      \* per handle: units it accounts for: 1 when built on an object,
                \*   +1 per AddRef, -1 per Release dispatched; -1 once it has
                \*   dispatched more Releases than that
    released,   \* per handle: Release has been called on it
    relZero,    \* per handle: some call of Release on it returned 0
    last,       \* the last operation: what it did at the foreign boundary
    crashed,    \* the process was ended by undefined behaviour
    epos,       \* the foreign enumerator's cursor: items it has gone past
    eref,       \* the foreign enumerator's reference count
    iter,       \* the enumerator's iterator: "none" (no such value now),
                \*   "live", or "ended" once a next() on it has returned None
    runtime,    \* the foreign runtime: "up", or "down" after the last
                \*   CoUninitialize
    heldAtTeardown, \* some handle held a pointer when the runtime went down
    parentHwnd, \* the parent window's HWND, NULL until it is created
    hdrExists,  \* a Header object has been instantiated
    hdrHwnd,    \* the Header's own HWND, NULL until it is created
    hdrVia,     \* how the Header was instantiated: "Wnd" (new), "Dlg"
                \*   (new_dlg), "none" while there is none
    hdrHandled, \* the closure the Header left on the parent's creation
                \*   message has run
    inLayout,   \* the Header has been added to the parent's layout arranger
    colWidths,  \* the list view's columns: the width of each, in order
    clientWidth, \* the width of the list view's client area (rc.right)
    itemType,   \* per tree item: the T of its TreeView<T>, "none" while the
                \*   item has not been added
    lParam,     \* per tree item: the lParam the control keeps for it
    strong,     \* per tree item: the strong count of the Rc made for it
    rcs         \* per tree item: references data() returned that are alive

\* The state of the handles and of the objects they point to.
handleVars == <<ostate, refCount, built, hstate, kind, vtbl, orig, owned,
                released, relZero, crashed>>

\* The state of the shell item enumerator.
enumVars == <<epos, eref, iter>>

\* The state of the foreign runtime.
rtVars == <<runtime, heldAtTeardown>>

\* The state of the windows and controls.
hdrVars == <<parentHwnd, hdrExists, hdrHwnd, hdrVia, hdrHandled, inLayout>>
lvVars  == <<colWidths, clientWidth>>
guiVars == <<hdrVars, lvVars>>

\* The state of the tree views' items.
treeVars == <<itemType, lParam, strong, rcs>>

\* What no method of a handle touches.
notHandle == <<enumVars, rtVars, guiVars, treeVars>>

\* What no method of the enumerator or of its iterator touches.
notEnum == <<handleVars, rtVars, guiVars, treeVars>>

\* What no method of a Header or of a list view column touches.
notGui == <<handleVars, enumVars, rtVars, treeVars>>

\* What no method of a tree item touches.
notTree == <<handleVars, enumVars, rtVars, guiVars>>

vars == <<handleVars, last, enumVars, rtVars, guiVars, treeVars>>

\* op: the method; h: the handle; pre, post: its stored pointer before and
\* after the call; calls: the foreign entries invoked, in order, each with
\* the pointer passed; nrel: how many times the call ran IUnknown::Release;
\* ret: the value returned (a count or a status); res: the typed result;
\* cnt: the count of pre's object before the call; outcome: "returned",
\* "ub" (returned after undefined behaviour) or "crash"; k: for Release and
\* the destructor, the type of the handle that went through it.
NoOp == [op |-> "none", h |-> 0, pre |-> NULL, post |-> NULL, calls |-> <<>>,
         nrel |-> 0, ret |-> 0, res |-> <<>>, cnt |-> 0, outcome |-> "returned",
         k |-> "none"]

\* Everything but the list view, which a program may have filled in any way.
InitBase ==
    /\ ostate   = [o \in Objs |-> "none"]
    /\ refCount = [o \in Objs |-> 0]
    /\ built    = [o \in Objs |-> 0]
    /\ hstate   = [h \in Handles |-> "free"]
    /\ kind     = [h \in Handles |-> "IUnknown"]
    /\ vtbl     = [h \in Handles |-> NULL]
    /\ orig     = [h \in Handles |-> NULL]
    /\ owned    = [h \in Handles |-> 0]
    /\ released = [h \in Handles |-> FALSE]
    /\ relZero  = [h \in Handles |-> FALSE]
    /\ last     = NoOp
    /\ crashed  = FALSE
    /\ epos     = 0
    /\ eref     = 1
    /\ iter     = "none"
    /\ runtime  = "up"
    /\ heldAtTeardown = FALSE
    /\ parentHwnd = NULL
    /\ hdrExists  = FALSE
    /\ hdrHwnd    = NULL
    /\ hdrVia     = "none"
    /\ hdrHandled = FALSE
    /\ inLayout   = FALSE
    /\ itemType   = [i \in TreeItems |-> "none"]
    /\ lParam     = [i \in TreeItems |-> 0]
    /\ strong     = [i \in TreeItems |-> 0]
    /\ rcs        = [i \in TreeItems |-> 0]

Init ==
    /\ InitBase
    /\ colWidths   = <<>>
    /\ clientWidth = 0

\* The count of p as the program can observe it (0 for the null pointer).
CountOf(p) == IF p = NULL THEN 0 ELSE refCount[p]

\* p points to an object the foreign runtime still keeps.
Valid(p) == p # NULL /\ ostate[p] = "live"

\* ------------------------------------------------------- foreign runtime
\* The object-creation entry point (CoCreateInstance): a new object whose
\* count holds one unit, the caller's.
CoCreateInstance(o) ==
    /\ ~crashed
    /\ runtime = "up"
    /\ ostate[o] = "none"
    /\ ostate'   = [ostate EXCEPT ![o] = "live"]
    /\ refCount' = [refCount EXCEPT ![o] = 1]
    /\ last'     = [NoOp EXCEPT !.op = "CoCreateInstance"]
    /\ UNCHANGED <<built, hstate, kind, vtbl, orig, owned, released, relZero, crashed>>
    /\ UNCHANGED notHandle

\* The last CoUninitialize of the process: the runtime goes down and takes
\* the objects it kept with it, whatever their counts; pointers to them
\* dangle from then on.
CoUninitialize ==
    /\ ~crashed
    /\ runtime = "up"
    /\ runtime' = "down"
    /\ heldAtTeardown' = \E h \in Handles : hstate[h] = "live" /\ vtbl[h] # NULL
    /\ ostate'  = [o \in Objs |-> IF ostate[o] = "live" THEN "freed" ELSE ostate[o]]
    /\ last'    = [NoOp EXCEPT !.op = "CoUninitialize"]
    /\ UNCHANGED <<refCount, built, hstate, kind, vtbl, orig, owned, released,
                   relZero, crashed, enumVars, guiVars, treeVars>>

\* The table of every object the factory creates (class TaskbarList).
ObjTable == ITaskbarList2Vtbl

\* What calling the entry at `slot` through pointer p can do: the value it
\* returns and the object's count afterwards.  On a live object the entry
\* named AddRef adds one to the count and Release takes one off, each
\* returning the new count; every other entry returns a status code.  Through
\* a null or dangling pointer the call is undefined behaviour.
Dispatch(p, slot) ==
    IF Valid(p)
    THEN LET e == ObjTable[slot + 1] IN
         CASE e = "AddRef" ->
                {[ret |-> refCount[p] + 1, cnt |-> refCount[p] + 1, outcome |-> "returned"]}
           [] e = "Release" ->
                {[ret |-> refCount[p] - 1, cnt |-> refCount[p] - 1, outcome |-> "returned"]}
           [] OTHER ->
                {[ret |-> hr, cnt |-> refCount[p], outcome |-> "returned"] : hr \in HResults}
    ELSE {[ret |-> r, cnt |-> CountOf(p), outcome |-> "ub"] : r \in Garbage}
         \cup {[ret |-> 0, cnt |-> CountOf(p), outcome |-> "crash"]}

\* The foreign side of a call: the new count, and the object destroyed at zero.
ApplyForeign(p, r) ==
    /\ refCount' = IF Valid(p) THEN [refCount EXCEPT ![p] = r.cnt] ELSE refCount
    /\ ostate'   = IF Valid(p) /\ r.cnt = 0 THEN [ostate EXCEPT ![p] = "freed"] ELSE ostate
    /\ crashed'  = (r.outcome = "crash")

\* The record of a call of entry `slot` through the stored pointer p, which
\* the method leaves as q.
Called(op, h, p, q, slot, r) ==
    [op |-> op, h |-> h, pre |-> p, post |-> q,
     calls |-> <<[slot |-> slot, arg |-> p]>>, nrel |-> 0,
     ret |-> r.ret, res |-> <<>>, cnt |-> CountOf(p), outcome |-> r.outcome,
     k |-> "none"]

\* Units of o's count the program holds that no live handle stands for.
SpareUnits(o) ==
    refCount[o] - Cardinality({h \in Handles : hstate[h] = "live" /\ vtbl[h] = o})

\* ----------------------------------------------------------- construction
\* The pointer IUnknown::from stores.
IUnknownFrom(ppv) == ppv

\* ITaskbarList::from: the pointer cast to the base table, handed to IUnknown.
ITaskbarListFrom(ppv) == IUnknownFrom(ppv)

\* ITaskbarList2::from: the pointer cast, handed to ITaskbarList.
ITaskbarList2From(ppv) == ITaskbarListFrom(ppv)

StoredBy(k, ppv) ==
    CASE k = "IUnknown"      -> IUnknownFrom(ppv)
      [] k = "ITaskbarList"  -> ITaskbarListFrom(ppv)
      [] k = "ITaskbarList2" -> ITaskbarList2From(ppv)

\* Faulty variant: a constructor that re-initialises a handle already in use.
FromTarget_InPlace(h) == \A g \in Handles : g < h => hstate[g] = "live"

\* A constructor builds a new value (here: in the first free place); it never
\* writes into an existing handle.
FromTarget(h) ==
    /\ hstate[h] = "free"
    /\ \A g \in Handles : g < h => hstate[g] = "live"

\* Faulty variant: a constructor that takes a reference of its own: it calls AddRef.
From_AddRef(h, k, ppv) ==
    /\ ~crashed
    /\ FromTarget(h)
    /\ ppv # NULL => (ostate[ppv] = "live" /\ SpareUnits(ppv) > 0)
    /\ hstate'   = [hstate EXCEPT ![h] = "live"]
    /\ kind'     = [kind EXCEPT ![h] = k]
    /\ vtbl'     = [vtbl EXCEPT ![h] = StoredBy(k, ppv)]
    /\ orig'     = [orig EXCEPT ![h] = ppv]
    /\ owned'    = [owned EXCEPT ![h] = IF ppv = NULL THEN 0 ELSE 1]
    /\ released' = [released EXCEPT ![h] = FALSE]
    /\ relZero'  = [relZero EXCEPT ![h] = FALSE]
    /\ built'    = IF ppv = NULL THEN built
                   ELSE [built EXCEPT ![ppv] = IF @ = 0 THEN 1 ELSE 2]
    /\ refCount' = IF ppv = NULL THEN refCount
                   ELSE [refCount EXCEPT ![ppv] = @ + 1]
    /\ last'     = [NoOp EXCEPT !.op = "From", !.h = h, !.pre = ppv,
                                !.post = StoredBy(k, ppv), !.cnt = CountOf(ppv),
                                !.calls = IF ppv = NULL THEN <<>>
                                          ELSE <<[slot |-> 1, arg |-> ppv]>>]
    /\ UNCHANGED <<ostate, crashed>>
    /\ UNCHANGED notHandle

\* From<ppv> for IUnknown / ITaskbarList / ITaskbarList2.  The caller passes
\* null or a pointer to a live object of which it owns a unit.
From(h, k, ppv) ==
    /\ ~crashed
    /\ FromTarget(h)
    /\ ppv # NULL => (ostate[ppv] = "live" /\ SpareUnits(ppv) > 0)
    /\ hstate'   = [hstate EXCEPT ![h] = "live"]
    /\ kind'     = [kind EXCEPT ![h] = k]
    /\ vtbl'     = [vtbl EXCEPT ![h] = StoredBy(k, ppv)]
    /\ orig'     = [orig EXCEPT ![h] = ppv]
    /\ owned'    = [owned EXCEPT ![h] = IF ppv = NULL THEN 0 ELSE 1]
    /\ released' = [released EXCEPT ![h] = FALSE]
    /\ relZero'  = [relZero EXCEPT ![h] = FALSE]
    /\ built'    = IF ppv = NULL THEN built
                   ELSE [built EXCEPT ![ppv] = IF @ = 0 THEN 1 ELSE 2]
    /\ last'     = [NoOp EXCEPT !.op = "From", !.h = h, !.pre = ppv,
                                !.post = StoredBy(k, ppv), !.cnt = CountOf(ppv)]
    /\ UNCHANGED <<ostate, refCount, crashed>>
    /\ UNCHANGED notHandle

\* ------------------------------------------------------------- IUnknown
\* IUnknown::ppv: the stored pointer, cast to the requested table type.
ppv(h) == vtbl[h]

\* Faulty variant: AddRef reading the Release field.
AddRefSlot_Release == SlotOf(IUnknownVtbl, "Release")

\* The entry AddRef reads: (*(*self.vtbl)).AddRef.
AddRefSlot == SlotOf(IUnknownVtbl, "AddRef")

\* The entry Release reads: (*(*self.vtbl)).Release.
ReleaseSlot == SlotOf(IUnknownVtbl, "Release")

\* IUnknown::AddRef.
AddRef(h) ==
    /\ ~crashed
    /\ hstate[h] = "live"
    /\ Valid(vtbl[h]) => (refCount[vtbl[h]] < MaxRef /\ owned[h] < MaxRef)
    /\ \E r \in Dispatch(vtbl[h], AddRefSlot) :
          /\ ApplyForeign(vtbl[h], r)
          /\ last' = Called("AddRef", h, vtbl[h], vtbl[h], AddRefSlot, r)
    /\ owned' = IF Valid(vtbl[h]) /\ owned[h] >= 0
                THEN [owned EXCEPT ![h] = @ + 1] ELSE owned
    /\ UNCHANGED <<built, hstate, kind, vtbl, orig, released, relZero>>
    /\ UNCHANGED notHandle

\* Faulty variant: Release with its null test the wrong way round.
IsNull_Inverted(p) == p # NULL

\* Faulty variant: Release without its null test.
IsNull_Never(p) == FALSE

\* Release's test of the stored pointer: self.vtbl.is_null().
IsNull(p) == p = NULL

\* Faulty variant: Release that never clears the pointer.
AfterRelease_Never(p, count) == p

\* Faulty variant: Release that clears the pointer whatever count is reported.
AfterRelease_Always(p, count) == NULL

\* Faulty variant: Release that clears the pointer one unit early.
AfterRelease_Early(p, count) == IF count <= 1 THEN NULL ELSE p

\* The stored pointer after the foreign Release reported refCount.
AfterRelease(p, count) == IF count = 0 THEN NULL ELSE p

\* IUnknown::Release run on handle h by method op ("Release", or "Drop" for
\* the destructor's call); q is the pointer it leaves in self.vtbl.
IUnknownRelease(h, op, q) ==
    IF IsNull(vtbl[h])
    THEN /\ q = vtbl[h]
         /\ last' = [NoOp EXCEPT !.op = op, !.h = h, !.pre = vtbl[h],
                                 !.post = q, !.nrel = 1, !.k = kind[h]]
         /\ UNCHANGED <<ostate, refCount, crashed>>
    ELSE \E r \in Dispatch(vtbl[h], ReleaseSlot) :
         /\ ApplyForeign(vtbl[h], r)
         /\ q = IF r.outcome = "crash" THEN vtbl[h] ELSE AfterRelease(vtbl[h], r.ret)
         /\ last' = [Called(op, h, vtbl[h], q, ReleaseSlot, r) EXCEPT
                        !.nrel = 1, !.k = kind[h]]

\* The units a handle accounts for after a call that dispatched n Releases.
OwnedAfter(n, k) == IF n > k \/ k < 0 THEN -1 ELSE k - n

\* The foreign Release calls the last operation made.
RelCalls(l) == Len(SelectSeq(l.calls, LAMBDA c : c.slot = ReleaseSlot))

\* An explicit call of IUnknown::Release.
Release(h) ==
    /\ ~crashed
    /\ hstate[h] = "live"
    /\ \E q \in Ptrs :
          /\ IUnknownRelease(h, "Release", q)
          /\ vtbl' = [vtbl EXCEPT ![h] = q]
    /\ released' = [released EXCEPT ![h] = TRUE]
    /\ relZero'  = [relZero EXCEPT ![h] = @ \/ (~crashed' /\ last'.ret = 0)]
    /\ owned'    = [owned EXCEPT ![h] = OwnedAfter(RelCalls(last'), @)]
    /\ UNCHANGED <<built, hstate, kind, orig>>
    /\ UNCHANGED notHandle

\* The handle's place once its value is gone.
Gone(f, h, v) == IF crashed' THEN f ELSE [f EXCEPT ![h] = v]

\* Faulty variant: a destructor that lets the value go without calling Release.
Drop_Forget(h) ==
    /\ ~crashed
    /\ hstate[h] = "live"
    /\ last'     = [NoOp EXCEPT !.op = "Drop", !.h = h, !.pre = vtbl[h],
                                !.post = vtbl[h], !.cnt = CountOf(vtbl[h]),
                                !.k = kind[h]]
    /\ hstate'   = [hstate EXCEPT ![h] = "free"]
    /\ kind'     = [kind EXCEPT ![h] = "IUnknown"]
    /\ vtbl'     = [vtbl EXCEPT ![h] = NULL]
    /\ orig'     = [orig EXCEPT ![h] = NULL]
    /\ owned'    = [owned EXCEPT ![h] = 0]
    /\ released' = [released EXCEPT ![h] = FALSE]
    /\ relZero'  = [relZero EXCEPT ![h] = FALSE]
    /\ UNCHANGED <<ostate, refCount, built, crashed>>
    /\ UNCHANGED notHandle

\* The structs a handle of type k is made of, outermost first: an
\* ITaskbarList2 holds an ITaskbarList, which holds the IUnknown.
Layers(k) ==
    CASE k = "ITaskbarList2" -> <<"ITaskbarList2", "ITaskbarList", "IUnknown">>
      [] k = "ITaskbarList"  -> <<"ITaskbarList", "IUnknown">>
      [] OTHER               -> <<"IUnknown">>

\* The struct has a destructor of its own: impl Drop exists for IUnknown only.
HasDrop(t) == t = "IUnknown"

\* How often dropping a handle of type k runs IUnknown::Release: once for
\* every struct of it that has a destructor.
DropRuns(k) == Len(SelectSeq(Layers(k), HasDrop))

\* Faulty variant: a destructor in every layer of a derived handle, so that a
\* second Release follows the first whenever the pointer is still there.
Drop_PerLayer(h) ==
    /\ ~crashed
    /\ hstate[h] = "live"
    /\ IF Len(Layers(kind[h])) > 1 /\ Valid(vtbl[h]) /\ refCount[vtbl[h]] > 1
       THEN /\ refCount' = [refCount EXCEPT ![vtbl[h]] = @ - 2]
            /\ ostate'   = IF refCount[vtbl[h]] = 2
                           THEN [ostate EXCEPT ![vtbl[h]] = "freed"] ELSE ostate
            /\ crashed'  = FALSE
            /\ last'     = [NoOp EXCEPT !.op = "Drop", !.h = h, !.pre = vtbl[h],
                              !.calls = <<[slot |-> ReleaseSlot, arg |-> vtbl[h]],
                                          [slot |-> ReleaseSlot, arg |-> vtbl[h]]>>,
                              !.nrel = 2, !.ret = refCount[vtbl[h]] - 2,
                              !.cnt = refCount[vtbl[h]], !.k = kind[h]]
       ELSE \E q \in Ptrs : IUnknownRelease(h, "Drop", q)
    /\ hstate'   = Gone(hstate, h, "free")
    /\ kind'     = Gone(kind, h, "IUnknown")
    /\ vtbl'     = Gone(vtbl, h, NULL)
    /\ orig'     = Gone(orig, h, NULL)
    /\ owned'    = Gone(owned, h, 0)
    /\ released' = Gone(released, h, FALSE)
    /\ relZero'  = Gone(relZero, h, FALSE)
    /\ UNCHANGED built
    /\ UNCHANGED notHandle

\* Drop for IUnknown: the handle goes out of scope.  A derived handle has no
\* destructor of its own; dropping it drops its base field.
Drop(h) ==
    /\ ~crashed
    /\ hstate[h] = "live"
    /\ \E q \in Ptrs : IUnknownRelease(h, "Drop", q)
    /\ hstate'   = Gone(hstate, h, "free")
    /\ kind'     = Gone(kind, h, "IUnknown")
    /\ vtbl'     = Gone(vtbl, h, NULL)
    /\ orig'     = Gone(orig, h, NULL)
    /\ owned'    = Gone(owned, h, 0)
    /\ released' = Gone(released, h, FALSE)
    /\ relZero'  = Gone(relZero, h, FALSE)
    /\ UNCHANGED built
    /\ UNCHANGED notHandle

\* ----------------------------------------------------------- typed calls
\* co::ERROR::from(u32): the typed status, a value that holds the numeric code.
ErrorFrom(n) == [ERROR |-> n]

\* Faulty variant: a translation that takes every non-negative HRESULT-style
\* code for success, so that code 1 is reported as Ok.
ToResult_Succeeded(hr) ==
    IF hr \in {S_OK, 1} THEN <<"Ok">> ELSE <<"Err", ErrorFrom(hr)>>

\* The status translation: co::ERROR::S_OK => Ok(()), err => Err(err).
ToResult(hr) ==
    IF ErrorFrom(hr) = ErrorFrom(S_OK) THEN <<"Ok">> ELSE <<"Err", ErrorFrom(hr)>>

\* Faulty variant: SetActiveAlt reading the neighbouring field.
SetActiveAltSlot_Activate == SlotOf(ITaskbarListVtbl, "activateTab")

\* The entry SetActiveAlt reads: (*(*ppv)).setActiveAlt.
SetActiveAltSlot == SlotOf(ITaskbarListVtbl, "setActiveAlt")

\* The entry MarkFullscreenWindow reads: (*(*ppv)).MarkFullscreenWindow.
MarkFullscreenWindowSlot == SlotOf(ITaskbarList2Vtbl, "MarkFullscreenWindow")

\* A typed method: the entry at `slot` called through the stored pointer,
\* its status translated.
TypedCall(h, op, slot) ==
    /\ \E r \in Dispatch(ppv(h), slot) :
          /\ ApplyForeign(ppv(h), r)
          /\ last' = [Called(op, h, ppv(h), ppv(h), slot, r) EXCEPT
                        !.res = IF r.outcome = "crash" THEN <<>> ELSE ToResult(r.ret)]
    /\ UNCHANGED <<built, hstate, kind, vtbl, orig, owned, released, relZero>>
    /\ UNCHANGED notHandle

\* ITaskbarList::SetActiveAlt.
SetActiveAlt(h) ==
    /\ ~crashed
    /\ hstate[h] = "live"
    /\ kind[h] \in {"ITaskbarList", "ITaskbarList2"}
    /\ TypedCall(h, "SetActiveAlt", SetActiveAltSlot)

\* ITaskbarList2::MarkFullscreenWindow.
MarkFullscreenWindow(h) ==
    /\ ~crashed
    /\ hstate[h] = "live"
    /\ kind[h] = "ITaskbarList2"
    /\ TypedCall(h, "MarkFullscreenWindow", MarkFullscreenWindowSlot)

\* ------------------------------------------------------------ enumerator
\* crate::vt::IUnknownVT, the base table of the ole interfaces.
IUnknownVT == <<"QueryInterface", "AddRef", "Release">>

\* #[repr(C)] IEnumShellItemsVT: the base table, then the enumerator's entries.
IEnumShellItemsVT == IUnknownVT \o <<"Next", "Skip", "Reset", "Clone">>

\* The ComPtr an IEnumShellItems holds: self.ptr().
EnumPtr == "enumA"

\* Counts a caller passes to Skip.
SkipCounts == {1, 2}

\* Status codes with which a foreign entry reports a failure.
Failures == HResults \ {S_OK, S_FALSE}

\* What calling the enumerator's entry at `slot` can do: the status it
\* returns, the cursor afterwards and the item it fetched (0: none).  Next
\* fetches the item under the cursor and moves on, or reports S_FALSE at the
\* end; Skip moves the cursor by `count`, or to the end with S_FALSE; Reset
\* moves it back to the start.  Any entry may fail instead, changing nothing.
EnumDispatch(slot, count) ==
    LET e == IEnumShellItemsVT[slot + 1]
        done(hr, pos, item) == [ret |-> hr, pos |-> pos, item |-> item]
    IN  {done(hr, epos, 0) : hr \in Failures} \cup
        CASE e = "Next"  -> IF epos < NumItems
                            THEN {done(S_OK, epos + 1, epos + 1)}
                            ELSE {done(S_FALSE, epos, 0)}
          [] e = "Skip"  -> IF epos + count <= NumItems
                            THEN {done(S_OK, epos + count, 0)}
                            ELSE {done(S_FALSE, NumItems, 0)}
          [] e = "Reset" -> {done(S_OK, 0, 0)}
          [] OTHER       -> {}

\* The record of a call of the enumerator's entry `slot` by method op, with
\* the count n passed after the pointer (0 where the entry takes none).
EnumCalled(op, slot, n, r, res) ==
    [NoOp EXCEPT !.op = op,
                 !.calls = <<[slot |-> slot, arg |-> EnumPtr, n |-> n]>>,
                 !.ret = r.ret, !.res = res]

\* co::HRESULT::from_raw: the typed status, a value that holds the numeric code.
HresultFrom(n) == [HRESULT |-> n]

\* crate::ole::privs::ok_to_hrresult: zero is success, any other code an error.
ok_to_hrresult(hr) ==
    IF HresultFrom(hr) = HresultFrom(S_OK) THEN <<"Ok">> ELSE <<"Err", HresultFrom(hr)>>

\* crate::ole::privs::okfalse_to_hrresult: S_OK is true, S_FALSE false, any
\* other code an error.
okfalse_to_hrresult(hr) ==
    CASE HresultFrom(hr) = HresultFrom(S_OK)    -> <<"Ok", TRUE>>
      [] HresultFrom(hr) = HresultFrom(S_FALSE) -> <<"Ok", FALSE>>
      [] OTHER                                  -> <<"Err", HresultFrom(hr)>>

\* IShellItem::from(ppv_queried): the item handle built on the fetched pointer.
IShellItemFrom(item) == [IShellItem |-> item]

\* Faulty variant: Next without the arm for S_FALSE.
NextResult_NoSentinel(hr, item) ==
    IF ok_to_hrresult(hr)[1] = "Ok"
    THEN <<"Ok", <<"Some", IShellItemFrom(item)>>>>
    ELSE <<"Err", ok_to_hrresult(hr)[2]>>

\* The match in IEnumShellItems::Next: Ok(_) => Ok(Some(item)),
\* Err(S_FALSE) => Ok(None), Err(hr) => Err(hr).
NextResult(hr, item) ==
    LET t == ok_to_hrresult(hr) IN
    IF t[1] = "Ok" THEN <<"Ok", <<"Some", IShellItemFrom(item)>>>>
    ELSE IF t[2] = HresultFrom(S_FALSE) THEN <<"Ok", <<"None">>>>
    ELSE <<"Err", t[2]>>

\* Faulty variant: an iterator that stops at the first error.
IterResult_StopOnError(res) ==
    CASE res[1] = "Err"       -> <<"None">>
      [] res[2] = <<"None">>  -> <<"None">>
      [] OTHER                -> <<"Some", <<"Ok", res[2][2]>>>>

\* The match in the iterator's next(): Err(err) => Some(Err(err)),
\* Ok(None) => None, Ok(Some(item)) => Some(Ok(item)).
IterResult(res) ==
    CASE res[1] = "Err"       -> <<"Some", res>>
      [] res[2] = <<"None">>  -> <<"None">>
      [] OTHER                -> <<"Some", <<"Ok", res[2][2]>>>>

NextSlot  == SlotOf(IEnumShellItemsVT, "Next")
SkipSlot  == SlotOf(IEnumShellItemsVT, "Skip")
ResetSlot == SlotOf(IEnumShellItemsVT, "Reset")

\* shell_IEnumShellItems::Next.
IEnumShellItemsNext ==
    /\ ~crashed
    /\ \E r \in EnumDispatch(NextSlot, 1) :
          /\ epos' = r.pos
          /\ last' = EnumCalled("Next", NextSlot, 1, r, NextResult(r.ret, r.item))
    /\ UNCHANGED <<notEnum, iter, eref>>

\* Faulty variant: Reset that calls the entry again when it has failed.
IEnumShellItemsReset_Retry ==
    /\ ~crashed
    /\ \E r \in EnumDispatch(ResetSlot, 0) :
          /\ epos' = IF r.ret = S_OK THEN r.pos ELSE 0
          /\ last' = [EnumCalled("Reset", ResetSlot, 0, r, ok_to_hrresult(S_OK)) EXCEPT
                        !.ret = S_OK,
                        !.calls = IF r.ret = S_OK THEN @ ELSE @ \o @]
    /\ UNCHANGED <<notEnum, iter, eref>>

\* shell_IEnumShellItems::Reset.
IEnumShellItemsReset ==
    /\ ~crashed
    /\ \E r \in EnumDispatch(ResetSlot, 0) :
          /\ epos' = r.pos
          /\ last' = EnumCalled("Reset", ResetSlot, 0, r, ok_to_hrresult(r.ret))
    /\ UNCHANGED <<notEnum, iter, eref>>

\* shell_IEnumShellItems::Skip.
IEnumShellItemsSkip(count) ==
    /\ ~crashed
    /\ \E r \in EnumDispatch(SkipSlot, count) :
          /\ epos' = r.pos
          /\ last' = EnumCalled("Skip", SkipSlot, count, r, okfalse_to_hrresult(r.ret))
    /\ UNCHANGED <<notEnum, iter, eref>>

\* shell_IEnumShellItems::iter: a boxed EnumShellItemsIter over self.ptr().
IEnumShellItemsIter ==
    /\ ~crashed
    /\ iter = "none"
    /\ iter' = "live"
    /\ last' = [NoOp EXCEPT !.op = "iter"]
    /\ UNCHANGED <<notEnum, epos, eref>>

\* Iterator::next of EnumShellItemsIter: self.array.Next(), its result
\* turned into the iterator's item.
EnumShellItemsIterNext ==
    /\ ~crashed
    /\ iter # "none"
    /\ \E r \in EnumDispatch(NextSlot, 1) :
          /\ epos' = r.pos
          /\ last' = EnumCalled("next", NextSlot, 1, r,
                                IterResult(NextResult(r.ret, r.item)))
    /\ iter' = IF last'.res = <<"None">> THEN "ended" ELSE iter
    /\ UNCHANGED <<notEnum, eref>>

\* Faulty variant: an iterator whose field is a plain IEnumShellItems, so
\* that dropping the iterator runs the enumerator's destructor and releases
\* a unit the iterator never acquired.
EnumShellItemsIterDrop_Owning ==
    /\ ~crashed
    /\ iter # "none"
    /\ iter' = "none"
    /\ eref' = eref - 1
    /\ last' = [NoOp EXCEPT !.op = "IterDrop",
                            !.calls = <<[slot |-> SlotOf(IEnumShellItemsVT, "Release"),
                                         arg |-> EnumPtr, n |-> 0]>>]
    /\ UNCHANGED <<notEnum, epos>>

\* The boxed iterator goes out of scope.  Its field is a
\* ManuallyDrop<IEnumShellItems>: no destructor runs for it.
EnumShellItemsIterDrop ==
    /\ ~crashed
    /\ iter # "none"
    /\ iter' = "none"
    /\ last' = [NoOp EXCEPT !.op = "IterDrop"]
    /\ UNCHANGED <<notEnum, epos, eref>>

\* ---------------------------------------------------------------- Header
\* The window handles the system gives out.
ParentWnd == "hwndParent"
HeaderWnd == "hwndHeader"

\* The record of a call that panicked with message msg.
Panicked(op, msg) ==
    [NoOp EXCEPT !.op = op, !.outcome = "panic", !.res = <<msg>>]

\* Header::new (via "Wnd") and Header::new_dlg (via "Dlg"): the object is
\* built with no window of its own, and a closure that will create it is
\* added to the parent's creation message.  Both panic when the parent
\* window exists already.
HeaderInstantiate(op, via) ==
    /\ ~crashed
    /\ ~hdrExists
    /\ IF parentHwnd # NULL
       THEN /\ last' = [NoOp EXCEPT !.op = op, !.outcome = "panic"]
            /\ UNCHANGED <<hdrExists, hdrVia>>
       ELSE /\ last' = [NoOp EXCEPT !.op = op]
            /\ hdrExists' = TRUE
            /\ hdrVia' = via
    /\ UNCHANGED <<parentHwnd, hdrHwnd, hdrHandled, inLayout, lvVars, notGui>>

\* Header::new.
HeaderNew == HeaderInstantiate("new", "Wnd")

\* Header::new_dlg.
HeaderNewDlg == HeaderInstantiate("new_dlg", "Dlg")

\* The parent window comes into being: it has its HWND before its creation
\* message is handled.
ParentCreate ==
    /\ ~crashed
    /\ parentHwnd = NULL
    /\ parentHwnd' = ParentWnd
    /\ last' = [NoOp EXCEPT !.op = "ParentCreate"]
    /\ UNCHANGED <<hdrExists, hdrHwnd, hdrVia, hdrHandled, inLayout, lvVars, notGui>>

\* The fallible steps of Header::create, in order, for each way of
\* instantiating: the `?` after each returns its error at once.
CreateSteps(via) ==
    IF via = "Wnd"
    THEN <<"multiply_dpi_or_dtu", "create_window", "add_to_layout_arranger">>
    ELSE <<"create_dlg", "add_to_layout_arranger">>

\* The steps of create that make the native window.
WindowSteps == {"create_window", "create_dlg"}

\* Faulty variant: create adding the control to the layout arranger before
\* its window is made.
CreateRuns_LayoutFirst(via) ==
    LET steps == CreateSteps(via)
        ran(n) == {steps[i] : i \in 1..n}
    IN  {[failed |-> f,
          wnd    |-> ran(IF f = 0 THEN Len(steps) ELSE f - 1) \cap WindowSteps # {},
          layout |-> TRUE,
          res    |-> IF f = 0 THEN <<"Ok">> ELSE <<"Err", steps[f]>>]
         : f \in 0..Len(steps)}

\* What a run of Header::create can come to: every step succeeded (failed =
\* 0), or step number `failed` returned an error and the later ones did not
\* run.  wnd: the window exists afterwards; layout: the control was added
\* to the layout arranger.
CreateRuns(via) ==
    LET steps == CreateSteps(via)
        ran(n) == {steps[i] : i \in 1..n}
    IN  {[failed |-> f,
          wnd    |-> ran(IF f = 0 THEN Len(steps) ELSE f - 1) \cap WindowSteps # {},
          layout |-> f = 0,
          res    |-> IF f = 0 THEN <<"Ok">> ELSE <<"Err", steps[f]>>]
         : f \in 0..Len(steps)}

\* Header::create, run once by the closure Header::new or new_dlg left on the
\* parent's creation message.
HeaderCreate ==
    /\ ~crashed
    /\ hdrExists
    /\ parentHwnd # NULL
    /\ ~hdrHandled
    /\ hdrHandled' = TRUE
    /\ \E run \in CreateRuns(hdrVia) :
          /\ hdrHwnd'  = IF run.wnd THEN HeaderWnd ELSE NULL
          /\ inLayout' = run.layout
          /\ last' = [NoOp EXCEPT !.op = "create", !.res = run.res]
    /\ UNCHANGED <<parentHwnd, hdrExists, hdrVia, lvVars, notGui>>

\* Faulty variant: on() testing the parent's window before the control's.
OnResult_ParentFirst(hwnd, parent) ==
    IF parent # NULL
    THEN Panicked("on", "Cannot add events after the parent window creation.")
    ELSE IF hwnd # NULL
    THEN Panicked("on", "Cannot add events after the control creation.")
    ELSE [NoOp EXCEPT !.op = "on", !.res = <<"events">>]

\* The body of Header::on, given the control's and the parent's HWND.
OnResult(hwnd, parent) ==
    IF hwnd # NULL
    THEN Panicked("on", "Cannot add events after the control creation.")
    ELSE IF parent # NULL
    THEN Panicked("on", "Cannot add events after the parent window creation.")
    ELSE [NoOp EXCEPT !.op = "on", !.res = <<"events">>]

\* GuiNativeControlEvents::on for Header.
HeaderOn ==
    /\ ~crashed
    /\ hdrExists
    /\ last' = OnResult(hdrHwnd, parentHwnd)
    /\ UNCHANGED <<guiVars, notGui>>

\* -------------------------------------------------------- ListViewColumn
\* The pixel widths of the model.
Widths == 0..MaxWidth

\* n as a 32-bit word (n as u32): its high and low 16-bit halves.
U32(n) == <<((n - (n % W16)) \div W16) % W16, n % W16>>

\* a < b, for 32-bit words.
U32Less(a, b) == a[1] < b[1] \/ (a[1] = b[1] /\ a[2] < b[2])

\* a + b modulo 2^32.
U32Add(a, b) ==
    LET carry == IF a[2] + b[2] >= W16 THEN 1 ELSE 0
    IN  <<(a[1] + b[1] + carry) % W16, (a[2] + b[2]) % W16>>

\* a - b modulo 2^32.
U32WrappingSub(a, b) ==
    LET borrow == IF a[2] < b[2] THEN 1 ELSE 0
    IN  <<(a[1] - b[1] - borrow) % W16, (a[2] - b[2]) % W16>>

\* The `-` of u32: what a - b can do.  When b > a, a build with overflow
\* checks panics and a build without them wraps around.
U32Sub(a, b) ==
    IF U32Less(a, b)
    THEN {[panic |-> TRUE, val |-> U32(0)], [panic |-> FALSE, val |-> U32WrappingSub(a, b)]}
    ELSE {[panic |-> FALSE, val |-> U32WrappingSub(a, b)]}

\* ListViewColumn::width of column i (0-based): what GetColumnWidth reports.
width(cols, i) == U32(cols[i + 1])

\* The loop of set_width_to_fill from column i on: cx_used, the widths of
\* all columns but `index` added up.
RECURSIVE CxUsedFrom(_, _, _)
CxUsedFrom(cols, i, index) ==
    IF i >= Len(cols) THEN U32(0)
    ELSE IF i # index
    THEN U32Add(width(cols, i), CxUsedFrom(cols, i + 1, index))
    ELSE CxUsedFrom(cols, i + 1, index)

\* The width column `index` has once the list view has handled
\* SetColumnWidth with the word w: w itself when it is a width, and a width
\* of the control's choosing when w is out of range (as a signed number, a
\* negative cx asks for automatic sizing).
WidthsAfter(w) == IF w[1] = 0 /\ w[2] \in Widths THEN {w[2]} ELSE Widths

\* ListViewColumn::set_width_to_fill on the column object with this index.
\* The object may outlive its column only when the list view has none.
set_width_to_fill(index) ==
    /\ ~crashed
    /\ Len(colWidths) > 0 => index < Len(colWidths)
    /\ LET num_cols == Len(colWidths)
           cx_used  == CxUsedFrom(colWidths, 0, index)
           done     == [NoOp EXCEPT !.op = "set_width_to_fill", !.h = index,
                                    !.cnt = num_cols]
       IN  IF num_cols > 0
           THEN \E d \in U32Sub(U32(clientWidth), cx_used) :
                   IF d.panic
                   THEN /\ last' = [done EXCEPT !.outcome = "panic",
                                      !.res = <<"attempt to subtract with overflow">>]
                        /\ UNCHANGED colWidths
                   ELSE /\ last' = [done EXCEPT !.calls =
                                      <<[msg |-> "SetColumnWidth", index |-> index,
                                         width |-> d.val]>>]
                        /\ \E w \in WidthsAfter(d.val) :
                              colWidths' = [colWidths EXCEPT ![index + 1] = w]
           ELSE /\ last' = done
                /\ UNCHANGED colWidths
    /\ UNCHANGED <<hdrVars, clientWidth, notGui>>

\* ----------------------------------------------------------- TreeViewItem
\* The user data types T of the tree views: the unit type and an actual one.
DataTypes == {"()", "String"}

\* TypeId::of::<T>() != TypeId::of::<()>(): the user defined an actual type.
HasData(T) == T # "()"

\* Rc::into_raw(Rc::new(..)) for item i: the address of the new allocation,
\* never zero, which holds one strong reference.
RcIntoRaw(i) == i

\* The lParam add_child puts in the new item i of a TreeView<T>.
AddChildParam(T, i) == IF HasData(T) THEN RcIntoRaw(i) ELSE 0

\* TreeViewItem::add_child on a TreeView<T>: the control gives the new item
\* the next handle and keeps the lParam sent with InsertItem.
add_child(T) ==
    /\ ~crashed
    /\ \E i \in TreeItems :
          /\ itemType[i] = "none"
          /\ \A j \in TreeItems : j < i => itemType[j] # "none"
          /\ itemType' = [itemType EXCEPT ![i] = T]
          /\ lParam'   = [lParam EXCEPT ![i] = AddChildParam(T, i)]
          /\ strong'   = [strong EXCEPT ![i] = IF HasData(T) THEN 1 ELSE 0]
          /\ last'     = [NoOp EXCEPT !.op = "add_child", !.h = i]
    /\ UNCHANGED <<rcs, notTree>>

\* TreeViewItem::data_lparam: the lParam GetItem reports, None when it is 0.
data_lparam(i) == IF lParam[i] = 0 THEN <<"None">> ELSE <<"Some", lParam[i]>>

\* Faulty variant: data() rebuilding the Rc without ManuallyDrop, so that the
\* rebuilt Rc is dropped and takes back the reference the clone added.
StrongAfterData_Consuming(n) == n

\* The strong count after data() has rebuilt the Rc inside ManuallyDrop and
\* cloned it: the clone adds one, and nothing is dropped.
StrongAfterData(n) == n + 1

\* TreeViewItem::data on item i.
data(i) ==
    /\ ~crashed
    /\ itemType[i] # "none"
    /\ rcs[i] < MaxRcs
    /\ IF data_lparam(i) = <<"None">>
       THEN /\ last' = [NoOp EXCEPT !.op = "data", !.h = i, !.res = <<"None">>]
            /\ UNCHANGED <<strong, rcs>>
       ELSE /\ last' = [NoOp EXCEPT !.op = "data", !.h = i, !.cnt = strong[i],
                                    !.res = <<"Some", data_lparam(i)[2]>>]
            /\ strong' = [strong EXCEPT ![i] = StrongAfterData(@)]
            /\ rcs'    = [rcs EXCEPT ![i] = @ + 1]
    /\ UNCHANGED <<itemType, lParam, notTree>>

\* The caller drops a reference data() returned for item i: the strong count
\* goes down by one.
DropData(i) ==
    /\ ~crashed
    /\ rcs[i] > 0
    /\ strong' = [strong EXCEPT ![i] = @ - 1]
    /\ rcs'    = [rcs EXCEPT ![i] = @ - 1]
    /\ last'   = [NoOp EXCEPT !.op = "DropData", !.h = i, !.cnt = strong[i]]
    /\ UNCHANGED <<itemType, lParam, notTree>>

\* ------------------------------------------------------- specifications
Next ==
    \/ \E o \in Objs : CoCreateInstance(o)
    \/ \E h \in Handles, k \in Kinds, p \in Ptrs : From(h, k, p)
    \/ \E h \in Handles : AddRef(h)
    \/ \E h \in Handles : Release(h)
    \/ \E h \in Handles : Drop(h)
    \/ \E h \in Handles : SetActiveAlt(h)
    \/ \E h \in Handles : MarkFullscreenWindow(h)

\* Every method of every handle type.
Spec == Init /\ [][Next]_vars

\* Every method, on handles of the most derived type: an ITaskbarList2 holds
\* an ITaskbarList, which holds the IUnknown, in public fields, so all the
\* methods of the three types can be called on it.
NextRef ==
    \/ \E o \in Objs : CoCreateInstance(o)
    \/ \E h \in Handles, p \in Ptrs : From(h, "ITaskbarList2", p)
    \/ \E h \in Handles : AddRef(h)
    \/ \E h \in Handles : Release(h)
    \/ \E h \in Handles : Drop(h)
    \/ \E h \in Handles : SetActiveAlt(h)
    \/ \E h \in Handles : MarkFullscreenWindow(h)

SpecRef == Init /\ [][NextRef]_vars

\* Derived handles in scoped use: built, used through AddRef and the typed
\* methods, and released by their destructor alone.
NextDerived ==
    \/ \E o \in Objs : CoCreateInstance(o)
    \/ \E h \in Handles, k \in Kinds, p \in Ptrs : From(h, k, p)
    \/ \E h \in Handles : AddRef(h)
    \/ \E h \in Handles : Drop(h)
    \/ \E h \in Handles : SetActiveAlt(h)
    \/ \E h \in Handles : MarkFullscreenWindow(h)

SpecDerived == Init /\ [][NextDerived]_vars

\* The enumerator and its iterator.
NextEnum ==
    \/ IEnumShellItemsNext
    \/ IEnumShellItemsReset
    \/ \E count \in SkipCounts : IEnumShellItemsSkip(count)
    \/ IEnumShellItemsIter
    \/ EnumShellItemsIterNext
    \/ EnumShellItemsIterDrop

SpecEnum == Init /\ [][NextEnum]_vars

\* Handles used until, and beyond, the last CoUninitialize.
NextTeardown ==
    \/ \E o \in Objs : CoCreateInstance(o)
    \/ \E h \in Handles, p \in Ptrs : From(h, "IUnknown", p)
    \/ \E h \in Handles : AddRef(h)
    \/ \E h \in Handles : Release(h)
    \/ \E h \in Handles : Drop(h)
    \/ CoUninitialize

SpecTeardown == Init /\ [][NextTeardown]_vars

\* The list views a program may have built: up to MaxCols columns.
ColumnLists == UNION {[1..n -> Widths] : n \in 0..MaxCols}

InitGui ==
    /\ InitBase
    /\ colWidths \in ColumnLists
    /\ clientWidth \in Widths

\* The controls: a Header from its instantiation to its creation, and the
\* columns of a list view.
NextGui ==
    \/ HeaderNew
    \/ HeaderNewDlg
    \/ ParentCreate
    \/ HeaderCreate
    \/ HeaderOn
    \/ \E index \in 0..(MaxCols - 1) : set_width_to_fill(index)

SpecGui == InitGui /\ [][NextGui]_vars

\* Items of tree views and the references to their data.
NextTree ==
    \/ \E T \in DataTypes : add_child(T)
    \/ \E i \in TreeItems : data(i)
    \/ \E i \in TreeItems : DropData(i)

SpecTree == Init /\ [][NextTree]_vars

\* No handle value exists now.
NoHandle == \A g \in Handles : hstate[g] = "free"

\* The wrappers that make a foreign call, on one handle at a time and on the
\* enumerator.
NextCalls ==
    \/ \E o \in Objs : CoCreateInstance(o)
    \/ \E h \in Handles, p \in Ptrs : NoHandle /\ From(h, "ITaskbarList2", p)
    \/ \E h \in Handles : AddRef(h)
    \/ \E h \in Handles : Release(h)
    \/ \E h \in Handles : Drop(h)
    \/ \E h \in Handles : SetActiveAlt(h)
    \/ \E h \in Handles : MarkFullscreenWindow(h)
    \/ IEnumShellItemsNext
    \/ IEnumShellItemsReset
    \/ \E count \in SkipCounts : IEnumShellItemsSkip(count)

SpecCalls == Init /\ [][NextCalls]_vars

\* ------------------------------------------------------------ properties
ReleaseOps == {"Release", "Drop"}
DispatchOps == {"AddRef", "SetActiveAlt", "MarkFullscreenWindow"}

\* C1: Release on a handle whose stored pointer is null returns 0, leaves
\* the pointer null and invokes no foreign entry, however often it is called.
C1_NullReleaseIsNoOp ==
    (last.op \in ReleaseOps /\ last.pre = NULL) =>
        /\ last.ret = 0
        /\ last.post = NULL
        /\ last.calls = <<>>
        /\ last.outcome = "returned"
        /\ hstate[last.h] = "live" => vtbl[last.h] = NULL

\* A handle invalidated by an earlier Release has been released again.
C1_Witness ==
    /\ last.op = "Release" /\ last.pre = NULL /\ last.ret = 0
    /\ orig[last.h] # NULL /\ vtbl[last.h] = NULL

\* C2: an AddRef or typed call on an invalidated handle (one whose pointer a
\* Release has set to null) is rejected locally: the pointer is not
\* dereferenced and no foreign entry is invoked.
C2_InvalidRejectedLocally ==
    (last.op \in DispatchOps /\ last.pre = NULL /\ orig[last.h] # NULL) =>
        (last.calls = <<>> /\ last.outcome = "returned")

\* C3: with every handle built on a unit of the count of its own, no Release
\* is dispatched to an object whose count has already reached zero.
C3_NoReleaseAfterZero ==
    (last.op \in ReleaseOps /\ last.calls # <<>>) => last.cnt > 0

\* C4: Release on a handle with a non-null pointer, when it returns, has
\* invoked the table's third entry exactly once with the stored pointer,
\* returns the count that call reported, and leaves the pointer null if that
\* count is zero and unchanged otherwise.
C4_ReleaseDispatchesOnce ==
    (last.op \in ReleaseOps /\ last.pre # NULL /\ last.outcome # "crash") =>
        /\ last.calls = <<[slot |-> 2, arg |-> last.pre]>>
        /\ last.post = NULL <=> last.ret = 0
        /\ last.ret # 0 => last.post = last.pre
        /\ last.outcome = "returned" =>
              (last.ret = last.cnt - 1 /\ refCount[last.pre] = last.ret)
        /\ last.op = "Release" => vtbl[last.h] = last.post

\* A Release took the last unit and cleared the pointer.
C4_Witness ==
    /\ last.op = "Release" /\ last.pre # NULL /\ last.outcome = "returned"
    /\ last.cnt = 1 /\ last.ret = 0 /\ vtbl[last.h] = NULL

\* C5: once a handle's stored pointer is null it is null in every later
\* state of that handle, whichever method is called on it.
C5_InvalidationIsMonotonic ==
    [][\A h \in Handles :
         (hstate[h] = "live" /\ hstate'[h] = "live" /\ vtbl[h] = NULL)
            => vtbl'[h] = NULL]_vars

\* An invalidated handle on which a typed method was then called still
\* holds null.
C5_Witness ==
    /\ last.op = "SetActiveAlt" /\ last.pre = NULL /\ last.outcome = "ub"
    /\ orig[last.h] # NULL /\ vtbl[last.h] = NULL

\* C6 (as claimed): a handle built from a valid pointer on which Release has
\* been called holds the null pointer.
C6_ReleasedImpliesNull ==
    \A h \in Handles :
        (hstate[h] = "live" /\ orig[h] # NULL /\ released[h]) => vtbl[h] = NULL

\* C6 (amended): a handle built from a valid pointer on which a call of
\* Release has returned 0 holds the null pointer.
C6_ZeroReleaseImpliesNull ==
    \A h \in Handles :
        (hstate[h] = "live" /\ orig[h] # NULL /\ relZero[h]) => vtbl[h] = NULL

\* A handle built from a valid pointer whose Release has returned 0.
C6_Witness ==
    \E h \in Handles :
        /\ hstate[h] = "live" /\ orig[h] # NULL
        /\ relZero[h] /\ vtbl[h] = NULL /\ last.op = "Release" /\ last.h = h

\* C7: dropping a handle runs Release exactly once: one foreign Release call
\* that takes one unit off the count when the pointer is not null, none when
\* it is, and the value is gone afterwards.
C7_DropReleasesOnce ==
    (last.op = "Drop" /\ last.outcome # "crash") =>
        /\ last.nrel = 1
        /\ last.pre # NULL => last.calls = <<[slot |-> ReleaseSlot, arg |-> last.pre]>>
        /\ last.pre = NULL => last.calls = <<>>
        /\ last.outcome = "returned" /\ last.pre # NULL
              => refCount[last.pre] = last.cnt - 1
        /\ hstate[last.h] = "free"

\* A handle holding a valid pointer was dropped.
C7_Witness ==
    /\ last.op = "Drop" /\ last.pre # NULL /\ last.outcome = "returned"
    /\ last.cnt = 2 /\ hstate[last.h] = "free"

\* The only handle ever built on its object.
SoleHolder(h) == hstate[h] = "live" /\ orig[h] # NULL /\ built[orig[h]] = 1

\* C8: for the only handle on an object created with count 1, after n AddRef
\* calls the pointer is non-null while fewer than n + 1 Releases have been
\* dispatched, the count being 1 + n less the Releases, and is null from the
\* (n+1)-th Release on.
C8_SoleHolderPairing ==
    \A h \in Handles :
        SoleHolder(h) =>
            /\ owned[h] >= 0
            /\ vtbl[h] = NULL <=> owned[h] = 0
            /\ vtbl[h] # NULL => (vtbl[h] = orig[h] /\ refCount[orig[h]] = owned[h])
            /\ vtbl[h] = NULL => ostate[orig[h]] = "freed"

\* AddRef, then the first of two Releases: the pointer is still there.
C8_Witness ==
    /\ last.op = "Release" /\ last.cnt = 2 /\ last.ret = 1
    /\ SoleHolder(last.h) /\ vtbl[last.h] # NULL /\ owned[last.h] = 1

\* C9: a constructor of any of the three handle types makes no foreign call,
\* leaves the count as it was and stores the pointer it was given.
C9_FromMakesNoForeignCall ==
    last.op = "From" =>
        /\ last.calls = <<>>
        /\ CountOf(last.pre) = last.cnt
        /\ hstate[last.h] = "live"
        /\ vtbl[last.h] = last.pre

\* A derived handle was built on an object that already has two units.
C9_Witness ==
    /\ last.op = "From" /\ last.pre # NULL /\ last.cnt = 2
    /\ kind[last.h] = "ITaskbarList2"

\* C10: AddRef on a handle whose pointer is valid invokes the table's second
\* entry exactly once with the stored pointer, adds one to the count, returns
\* the new count and leaves the stored pointer as it was.
C10_AddRefDispatchesOnce ==
    (last.op = "AddRef" /\ last.cnt > 0) =>
        /\ last.outcome = "returned"
        /\ last.calls = <<[slot |-> 1, arg |-> last.pre]>>
        /\ refCount[last.pre] = last.cnt + 1
        /\ last.ret = last.cnt + 1
        /\ last.post = last.pre
        /\ vtbl[last.h] = last.pre

\* AddRef took the count from 1 to 2.
C10_Witness ==
    /\ last.op = "AddRef" /\ last.cnt = 1 /\ last.ret = 2
    /\ vtbl[last.h] = last.pre

\* Methods that translate a foreign status code into a typed result.
TypedOps == {"SetActiveAlt", "MarkFullscreenWindow"}

\* C11: SetActiveAlt and MarkFullscreenWindow, when the foreign entry returns
\* code 0, yield Ok(()); when it returns a non-zero code they yield Err
\* carrying exactly that code.
C11_StatusTranslation ==
    (last.op \in TypedOps /\ last.outcome = "returned") =>
        /\ last.ret = 0 => last.res = <<"Ok">>
        /\ last.ret # 0 => last.res = <<"Err", [ERROR |-> last.ret]>>

\* MarkFullscreenWindow on a valid handle got the non-zero code 1 from the
\* foreign entry and returned it as an error.
C11_Witness ==
    /\ last.op = "MarkFullscreenWindow" /\ last.outcome = "returned"
    /\ last.ret = 1 /\ last.res = <<"Err", [ERROR |-> 1]>>

\* C12: when the foreign Next entry returns S_FALSE, IEnumShellItems::Next
\* yields Ok(None) and the iterator's next() yields None; when it returns any
\* other non-zero status, both yield an error carrying that status.
C12_SentinelIsEmptyResult ==
    /\ last.op = "Next" =>
          /\ last.ret = S_FALSE => last.res = <<"Ok", <<"None">>>>
          /\ last.ret \notin {S_OK, S_FALSE}
                => last.res = <<"Err", [HRESULT |-> last.ret]>>
    /\ last.op = "next" =>
          /\ last.ret = S_FALSE => last.res = <<"None">>
          /\ last.ret \notin {S_OK, S_FALSE}
                => last.res = <<"Some", <<"Err", [HRESULT |-> last.ret]>>>>

\* The iterator went past the last item: the foreign Next reported S_FALSE
\* and next() returned None.
C12_Witness ==
    /\ last.op = "next" /\ last.ret = S_FALSE /\ last.res = <<"None">>
    /\ epos = NumItems /\ iter = "ended"

\* C13: once a next() of the iterator has returned None, a further next() on
\* it returns None and makes no foreign call of Next.
C13_NoDispatchAfterEnd ==
    [][(iter = "ended" /\ last'.op = "next")
          => (last'.calls = <<>> /\ last'.res = <<"None">>)]_vars

\* C14: a typed method invokes exactly the entry at its fixed offset in the
\* table behind the stored pointer (SetActiveAlt the fifth entry after the
\* three base entries, MarkFullscreenWindow the entry right after those of
\* ITaskbarList) and passes the pointer the handle was built on as the first
\* argument.
C14_DerivedDispatch ==
    /\ last.op = "SetActiveAlt" =>
          /\ last.calls = <<[slot |-> Len(IUnknownVtbl) + 4, arg |-> last.pre]>>
          /\ ObjTable[last.calls[1].slot + 1] = "setActiveAlt"
    /\ last.op = "MarkFullscreenWindow" =>
          /\ last.calls = <<[slot |-> Len(ITaskbarListVtbl), arg |-> last.pre]>>
          /\ ObjTable[last.calls[1].slot + 1] = "MarkFullscreenWindow"
    /\ (last.op \in TypedOps /\ hstate[last.h] = "live") =>
          (last.pre = orig[last.h] /\ vtbl[last.h] = orig[last.h])

\* SetActiveAlt was called on an ITaskbarList handle built on an object: it
\* went to slot 7 with that object's pointer.
C14_Witness ==
    /\ last.op = "SetActiveAlt" /\ last.outcome = "returned"
    /\ kind[last.h] = "ITaskbarList" /\ orig[last.h] # NULL
    /\ last.calls = <<[slot |-> 7, arg |-> orig[last.h]]>>

\* t starts with the slots of base, in the same order.
HasPrefix(t, base) == Len(base) <= Len(t) /\ SubSeq(t, 1, Len(base)) = base

\* C15: every table starts with QueryInterface, AddRef, Release; a derived
\* table is its base table followed by its own slots; so AddRef and Release
\* through a handle of any type go to slots 1 and 2.
C15_PrefixLayout ==
    /\ \A t \in {IUnknownVtbl, ITaskbarListVtbl, ITaskbarList2Vtbl, IEnumShellItemsVT} :
          HasPrefix(t, <<"QueryInterface", "AddRef", "Release">>)
    /\ HasPrefix(ITaskbarListVtbl, IUnknownVtbl)
    /\ Len(ITaskbarListVtbl) = Len(IUnknownVtbl) + 5
    /\ HasPrefix(ITaskbarList2Vtbl, ITaskbarListVtbl)
    /\ Len(ITaskbarList2Vtbl) = Len(ITaskbarListVtbl) + 1
    /\ HasPrefix(IEnumShellItemsVT, IUnknownVT)
    /\ Len(IEnumShellItemsVT) = Len(IUnknownVT) + 4
    /\ last.op = "AddRef" => last.calls[1].slot = 1
    /\ (last.op \in ReleaseOps /\ last.calls # <<>>) => last.calls[1].slot = 2

\* AddRef through a handle of the most derived type went to slot 1.
C15_Witness ==
    /\ last.op = "AddRef" /\ last.outcome = "returned"
    /\ kind[last.h] = "ITaskbarList2"
    /\ last.calls = <<[slot |-> 1, arg |-> orig[last.h]]>>

\* Methods of the enumerator that call a foreign entry.
EnumOps == {"Next", "Reset", "Skip"}

\* C16: one invocation of AddRef, of Release on a handle holding a pointer, of
\* SetActiveAlt, MarkFullscreenWindow, Next, Reset or Skip makes exactly one
\* foreign call; when that call reports a failure, the failure is returned
\* and no second call is made.
C16_NoRetries ==
    /\ last.op \in DispatchOps \cup EnumOps => Len(last.calls) = 1
    /\ (last.op = "Release" /\ last.pre # NULL) => Len(last.calls) = 1
    /\ (last.op \in TypedOps /\ last.outcome = "returned" /\ last.ret # S_OK)
          => last.res = <<"Err", [ERROR |-> last.ret]>>
    /\ (last.op \in EnumOps /\ last.ret \in Failures)
          => last.res = <<"Err", [HRESULT |-> last.ret]>>

\* Reset failed: one call was made and its status came back as the error.
C16_Witness ==
    /\ last.op = "Reset" /\ last.ret = 5
    /\ last.calls = <<[slot |-> ResetSlot, arg |-> EnumPtr, n |-> 0]>>
    /\ last.res = <<"Err", [HRESULT |-> 5]>>

\* C17 (as claimed): no Release, explicit or by a destructor, is dispatched
\* into the foreign table after the last CoUninitialize.
C17_NoReleaseAfterTeardown ==
    (runtime = "down" /\ last.op \in ReleaseOps) => last.calls = <<>>

\* C17 (amended): when every handle had been dropped or held the null
\* pointer at the last CoUninitialize, no Release is dispatched into the
\* foreign table after it.
C17_NoReleaseAfterCleanTeardown ==
    (runtime = "down" /\ ~heldAtTeardown /\ last.op \in ReleaseOps)
        => last.calls = <<>>

\* A handle built on an object and released to zero before the teardown was
\* released again after it.
C17_Witness ==
    /\ runtime = "down" /\ ~heldAtTeardown
    /\ last.op = "Release" /\ orig[last.h] # NULL /\ last.calls = <<>>

\* C18: Header::on returns the events object exactly when the control's and
\* the parent's window handles are both NULL; when the control has been
\* created it panics with "Cannot add events after the control creation.",
\* and when only the parent has been created it panics with "Cannot add
\* events after the parent window creation.".
C18_OnOnlyBeforeCreation ==
    last.op = "on" =>
        /\ (hdrHwnd = NULL /\ parentHwnd = NULL)
              <=> (last.outcome = "returned" /\ last.res = <<"events">>)
        /\ hdrHwnd # NULL =>
              /\ last.outcome = "panic"
              /\ last.res = <<"Cannot add events after the control creation.">>
        /\ (hdrHwnd = NULL /\ parentHwnd # NULL) =>
              /\ last.outcome = "panic"
              /\ last.res = <<"Cannot add events after the parent window creation.">>

\* on() was called after the control had been created.
C18_Witness ==
    /\ last.op = "on" /\ hdrHwnd # NULL /\ parentHwnd # NULL
    /\ last.outcome = "panic"

\* The widths of all columns but `index`, added up as a number.
RECURSIVE SumOthers(_, _, _)
SumOthers(cols, i, index) ==
    IF i > Len(cols) THEN 0
    ELSE (IF i # index + 1 THEN cols[i] ELSE 0) + SumOthers(cols, i + 1, index)

\* C19: set_width_to_fill on a list view with columns sends SetColumnWidth
\* for its column with the client width less the widths of all the other
\* columns, a difference that does not go below zero or wrap around; on a
\* list view without columns it sends nothing.
C19_FillsRemainingSpace ==
    last.op = "set_width_to_fill" =>
        IF last.cnt = 0 THEN last.calls = <<>> /\ last.outcome = "returned"
        ELSE /\ last.outcome = "returned"
             /\ clientWidth - SumOthers(colWidths, 1, last.h) >= 0
             /\ last.calls =
                   <<[msg |-> "SetColumnWidth", index |-> last.h,
                      width |-> <<0, clientWidth - SumOthers(colWidths, 1, last.h)>>]>>

\* C20: over its lifetime a handle dispatches no more foreign Releases than
\* one plus the AddRef calls made through it: a Release, explicit or by the
\* drop, is dispatched only while the handle still accounts for a unit.
C20_ReleasesWithinUnits ==
    [][\A h \in Handles :
         (hstate[h] = "live" /\ last'.op \in ReleaseOps /\ last'.h = h
             /\ RelCalls(last') > 0)
            => owned[h] > 0]_vars

\* The handle types built on top of IUnknown.
DerivedKinds == {"ITaskbarList", "ITaskbarList2"}

\* C21: dropping an ITaskbarList or ITaskbarList2 handle runs Release once,
\* whatever the number of structs the handle is made of: at most one foreign
\* Release call, made with the stored pointer, taking one unit off the count.
C21_DerivedDropReleasesOnce ==
    /\ \A k \in DerivedKinds : DropRuns(k) = 1
    /\ (last.op = "Drop" /\ last.k \in DerivedKinds /\ last.outcome # "crash") =>
          /\ last.nrel = DropRuns(last.k)
          /\ last.pre # NULL => last.calls = <<[slot |-> ReleaseSlot, arg |-> last.pre]>>
          /\ last.pre = NULL => last.calls = <<>>
          /\ (last.outcome = "returned" /\ last.pre # NULL)
                => refCount[last.pre] = last.cnt - 1

\* An ITaskbarList2 handle on an object with two units was dropped: one
\* Release, one unit left.
C21_Witness ==
    /\ last.op = "Drop" /\ last.k = "ITaskbarList2" /\ last.outcome = "returned"
    /\ last.pre # NULL /\ last.cnt = 2 /\ refCount[last.pre] = 1
    /\ Len(last.calls) = 1

\* What is done with the iterator: made, advanced, dropped.
IterOps == {"iter", "next", "IterDrop"}

\* The calls of l that went to the AddRef or the Release entry.
CountCalls(l) ==
    SelectSeq(l.calls, LAMBDA c : IEnumShellItemsVT[c.slot + 1] \in {"AddRef", "Release"})

\* C22: making the iterator calls no AddRef and dropping it no Release; the
\* enumerator's reference count stays what it was through any making,
\* advancing and dropping of iterators.
C22_IteratorBorrows ==
    /\ eref = 1
    /\ last.op \in IterOps => CountCalls(last) = <<>>
    /\ last.op \in {"iter", "IterDrop"} => last.calls = <<>>

\* An iterator that had gone through all items was dropped.
C22_Witness ==
    /\ last.op = "IterDrop" /\ iter = "none" /\ epos = NumItems /\ eref = 1

\* C23: every next() makes exactly one foreign Next call asking for one
\* item; a success yields Some(Ok(item)) with the item the enumerator was at,
\* a failure other than S_FALSE yields Some(Err(code)) and leaves the
\* iteration going, and None is returned exactly when the call reported
\* S_FALSE, which alone ends a loop over the iterator.
C23_OneNextPerStep ==
    last.op = "next" =>
        /\ last.calls = <<[slot |-> NextSlot, arg |-> EnumPtr, n |-> 1]>>
        /\ last.ret = S_OK =>
              last.res = <<"Some", <<"Ok", [IShellItem |-> epos]>>>>
        /\ last.ret \in Failures =>
              last.res = <<"Some", <<"Err", [HRESULT |-> last.ret]>>>>
        /\ last.res = <<"None">> <=> last.ret = S_FALSE
        /\ last.ret = S_FALSE => iter = "ended"

\* next() met an error before any end: it yielded the error and the
\* iteration goes on.
C23_Witness ==
    /\ last.op = "next" /\ last.ret = 5 /\ iter = "live"
    /\ last.res = <<"Some", <<"Err", [HRESULT |-> 5]>>>>

\* C24: Header::new and Header::new_dlg leave the control without a window;
\* the window exists only once the closure on the parent's creation message
\* has run; the control is in the layout arranger only with its window
\* created, and a run of create that fails before or in the creation of the
\* window leaves the control without window and out of the layout arranger.
C24_CreationOrdering ==
    /\ last.op \in {"new", "new_dlg"} => (hdrHwnd = NULL /\ ~inLayout)
    /\ hdrHwnd # NULL => (hdrHandled /\ parentHwnd # NULL)
    /\ inLayout => hdrHwnd # NULL
    /\ last.op = "create" =>
          /\ last.res = <<"Ok">> => (hdrHwnd # NULL /\ inLayout)
          /\ last.res # <<"Ok">> => ~inLayout
          /\ (last.res # <<"Ok">> /\ last.res[2] # "add_to_layout_arranger")
                => hdrHwnd = NULL

\* The creation of the window failed inside the handler: no window, and the
\* control was not added to the layout arranger.
C24_Witness ==
    /\ last.op = "create" /\ last.res = <<"Err", "create_window">>
    /\ hdrVia = "Wnd" /\ parentHwnd # NULL /\ hdrHwnd = NULL /\ ~inLayout

\* C25: an item added with a data type other than () has a non-zero lParam
\* holding one strong reference; every data() on it returns a further
\* reference and leaves the stored one, so the strong count is 1 plus the
\* returned references still alive and is never 0.  An item of a
\* TreeView<()> has lParam 0, no reference, and data() returns None.
C25_DataRefCount ==
    /\ \A i \in TreeItems :
          /\ (itemType[i] # "none" /\ HasData(itemType[i])) =>
                (lParam[i] # 0 /\ strong[i] = 1 + rcs[i] /\ strong[i] > 0)
          /\ itemType[i] = "()" => (lParam[i] = 0 /\ strong[i] = 0 /\ rcs[i] = 0)
    /\ (last.op = "add_child" /\ HasData(itemType[last.h])) => strong[last.h] = 1
    /\ last.op = "data" =>
          IF HasData(itemType[last.h])
          THEN /\ last.res = <<"Some", lParam[last.h]>>
               /\ strong[last.h] = last.cnt + 1
          ELSE last.res = <<"None">>

\* Two references to an item's data had been returned and one of them was
\* dropped: the count is 2.
C25_Witness ==
    /\ last.op = "DropData" /\ HasData(itemType[last.h])
    /\ last.cnt = 3 /\ strong[last.h] = 2 /\ rcs[last.h] = 1

====
